---- MODULE Spec2Model ----
(***************************************************************************)
(* Alpha-algorithm process discovery (src/q2.py, class AlphaAlgorithm) and *)
(* conformance scoring / trace synthesis (src/q4.py).                      *)
(*                                                                         *)
(* Spec    : one run of AlphaAlgorithm.run_analysis on an event-log file,  *)
(*           followed by the scoring functions of q4 applied to the saved  *)
(*           Petri net and to the same event-log file.                     *)
(* SpecGen : generate_test_traces on a Petri net, one random draw per      *)
(*           step, followed by calculate_fitness / calculate_precision on  *)
(*           the generated traces.                                         *)
(*                                                                         *)
(* Python floats are modelled as exact rationals <<num, den>> in lowest    *)
(* terms; an attribute holding None is <<>>, an assigned one is <<value>>. *)
(***************************************************************************)
EXTENDS Integers, Sequences, FiniteSets

\* ------------------------------------------------------------------ bounds

\* Activity labels, in the order Python's sorted() puts them.
LabelOrder == <<"A", "B", "C", "D">>

Labels == {LabelOrder[i] : i \in 1..Len(LabelOrder)}

\* Total number of events in an enumerated event-log file.
MaxEvents == 4

\* Number of traces in an enumerated event-log file.
MaxTraces == 2

\* ------------------------------------------------------- values and helpers

None == <<>>

Some(x) == <<x>>

Get(o) == o[1]

Range(s) == {s[i] : i \in 1..Len(s)}

Rank(l) == CHOOSE i \in 1..Len(LabelOrder) : LabelOrder[i] = l

\* Python's tuple/str ordering: labels by code point, pairs lexicographically.
LabelLess(x, y) == Rank(x) < Rank(y)

PairLess(p, q) == \/ LabelLess(p[1], q[1])
                  \/ p[1] = q[1] /\ LabelLess(p[2], q[2])

\* sorted(list(S)) for a set of labels
RECURSIVE SortedLabels(_)
SortedLabels(S) ==
    IF S = {} THEN <<>>
    ELSE LET m == CHOOSE x \in S : \A y \in S \ {x} : LabelLess(x, y)
         IN  <<m>> \o SortedLabels(S \ {m})

\* sorted(list(S)) for a set of label pairs
RECURSIVE SortedPairs(_)
SortedPairs(S) ==
    IF S = {} THEN <<>>
    ELSE LET m == CHOOSE x \in S : \A y \in S \ {x} : PairLess(x, y)
         IN  <<m>> \o SortedPairs(S \ {m})

RECURSIVE SumSeq(_)
SumSeq(s) == IF s = <<>> THEN 0 ELSE Head(s) + SumSeq(Tail(s))

RECURSIVE GCD(_, _)
GCD(a, b) == IF b = 0 THEN a ELSE GCD(b, a % b)

\* The number n/d (n >= 0) in lowest terms; a zero divisor gives ZeroDivision,
\* which every later operation on it hands on (the exception propagating).
ZeroDivision == <<0, 0>>

Rat(n, d) == IF d = 0 THEN ZeroDivision ELSE <<n \div GCD(n, d), d \div GCD(n, d)>>

RatAdd(x, y) ==
    IF x = ZeroDivision \/ y = ZeroDivision THEN ZeroDivision
    ELSE Rat(x[1] * y[2] + y[1] * x[2], x[2] * y[2])

\* x / n for an integer n
RatDivInt(x, n) ==
    IF x = ZeroDivision THEN ZeroDivision ELSE Rat(x[1], x[2] * n)

RatLeq(x, y) == x[1] * y[2] <= y[1] * x[2]

RECURSIVE RatSum(_)
RatSum(s) == IF s = <<>> THEN Rat(0, 1) ELSE RatAdd(Head(s), RatSum(Tail(s)))

\* ------------------------------------------------------- event-log documents

\* An event dictionary as q1 writes it; only its 'task' key is read (every
\* event of the documents considered here has one).
Event(l) == [task |-> l]

\* The trace of event dictionaries whose tasks are the labels of s.
RawTrace(s) == [i \in 1..Len(s) |-> Event(s[i])]

\* s cut into consecutive traces of the lengths in cut.
Split(s, cut) ==
    [j \in 1..Len(cut) |->
        LET off == SumSeq(SubSeq(cut, 1, j - 1))
        IN  RawTrace(SubSeq(s, off + 1, off + cut[j]))]

\* A JSON document that is a list of traces.
ListDoc(traces) == [is_list |-> TRUE, traces |-> traces]

\* A JSON document that is not a list (an object, a number, a string).
NotAListDoc == [is_list |-> FALSE, traces |-> <<>>]

\* The log of the specification's scenario: [[A,B,D],[A,C,D]].
ScenarioLog == ListDoc(<<RawTrace(<<"A", "B", "D">>), RawTrace(<<"A", "C", "D">>)>>)

\* The labels the enumerated event-log files are written over.
EnumLabels == Labels

\* doc is a list document of n traces holding the k events of s.
IsLogOf(doc, s, n) ==
    \E cut \in [1..n -> 0..Len(s)] :
        /\ SumSeq(cut) = Len(s)
        /\ doc = ListDoc(Split(s, cut))

\* doc is a list document with at most MaxTraces traces and MaxEvents events.
IsEnumeratedLog(doc) ==
    \E k \in 0..MaxEvents : \E s \in [1..k -> EnumLabels] :
        \E n \in 0..MaxTraces : IsLogOf(doc, s, n)

\* ------------------------------------------------------------------- state

VARIABLES
    log_file,           \* the JSON document at self.log_path
    pc,                 \* position in run_analysis / in q4's main block
    event_log,          \* self.event_log
    trace_frequencies,  \* self.trace_frequencies
    unique_traces,      \* self.unique_traces
    unique_events,      \* self.unique_events
    initial_events,     \* self.initial_events
    final_events,       \* self.final_events
    footprint_matrix,   \* self.footprint_matrix
    relationships,      \* self.relationships
    petri_net,          \* self.petri_net
    net_file,           \* the petri_net_<timestamp>.json written by save_results
    raised,             \* the exception that ended the run, with the function raising it
    q4_event_log,       \* q4 main: event_log
    q4_petri_net,       \* q4 main: petri_net
    fitness,            \* q4 main: fitness
    precision,          \* q4 main: precision
    simplicity,         \* q4 main: simplicity
    num_traces,         \* generate_test_traces: argument
    max_length,         \* generate_test_traces: argument
    min_length,         \* generate_test_traces: argument
    test_traces,        \* generate_test_traces: test_traces, then q4 main's
    trace,              \* generate_test_traces: trace
    marking,            \* generate_test_traces: marking
    outer,              \* iterations of `for _ in range(num_traces)` begun
    inner,              \* iterations of `for _ in range(max_length)` completed
    test_fitness,       \* q4 main: test_fitness
    test_precision,     \* q4 main: test_precision
    first_traces        \* what an earlier call of generate_test_traces returned

q2vars == <<log_file, event_log, trace_frequencies, unique_traces, unique_events,
            initial_events, final_events, footprint_matrix, relationships,
            petri_net, net_file>>

scorevars == <<q4_event_log, q4_petri_net, fitness, precision, simplicity>>

genargs == <<num_traces, max_length, min_length>>

genvars == <<genargs, test_traces, trace, marking, outer, inner,
             test_fitness, test_precision, first_traces>>

q4vars == <<scorevars, genvars>>

Raise(type, by) == Some([type |-> type, by |-> by])

\* ------------------------------------------- AlphaAlgorithm.load_event_log

\* [event['task'] for event in trace]
TaskNames(tr) == [i \in 1..Len(tr) |-> tr[i].task]

\* [x for x in seq if x]: the non-empty elements of seq, in order
RECURSIVE SkipEmpty(_)
SkipEmpty(seq) ==
    IF seq = <<>> THEN <<>>
    ELSE IF Head(seq) = <<>> THEN SkipEmpty(Tail(seq))
         ELSE <<Head(seq)>> \o SkipEmpty(Tail(seq))

\* InvalidLog without the emptiness test: a faulty variant, used to test C7.
InvalidLogTypeOnly(doc) == ~doc.is_list

\* not isinstance(self.event_log, list) or not self.event_log
InvalidLog(doc) == ~doc.is_list \/ doc.traces = <<>>

\* The list comprehension of load_event_log: task names of every non-empty trace.
LoadedLog(doc) ==
    LET kept == SkipEmpty(doc.traces)
    IN  [i \in 1..Len(kept) |-> TaskNames(kept[i])]

\* self.event_log is assigned the parsed document before it is validated, so a
\* rejected document stays in self.event_log when ValueError is raised.
load_event_log ==
    /\ pc = "start"
    /\ IF InvalidLog(log_file)
       THEN /\ event_log' = Some(log_file)
            /\ raised' = Raise("ValueError", "load_event_log")
            /\ pc' = "aborted"
       ELSE /\ event_log' = Some(LoadedLog(log_file))
            /\ raised' = raised
            /\ pc' = "loaded"
    /\ UNCHANGED <<log_file, trace_frequencies, unique_traces, unique_events,
                   initial_events, final_events, footprint_matrix, relationships,
                   petri_net, net_file,
                   q4vars>>

\* ------------------------------------- AlphaAlgorithm.extract_unique_traces

\* The keys of Counter(traces), in order of first occurrence.
RECURSIVE FirstOccurrences(_)
FirstOccurrences(traces) ==
    IF traces = <<>> THEN <<>>
    ELSE LET init == SubSeq(traces, 1, Len(traces) - 1)
             last == traces[Len(traces)]
             keys == FirstOccurrences(init)
         IN  IF last \in Range(init) THEN keys ELSE Append(keys, last)

\* Counter(traces)[t]
Frequency(traces, t) == Cardinality({i \in 1..Len(traces) : traces[i] = t})

\* f"{(freq / total) * 100:.2f}%", as the number of hundredths of a percent
Percentage(freq, total) == (20000 * freq + total) \div (2 * total)

\* " -> ".join(trace), as the sequence of its pieces
JoinArrow(tr) ==
    [i \in 1..(IF tr = <<>> THEN 0 ELSE 2 * Len(tr) - 1) |->
        IF i % 2 = 1 THEN tr[(i + 1) \div 2] ELSE " -> "]

\* The rows appended to the frame, one per key of the Counter.
TraceRows(traces) ==
    LET keys == FirstOccurrences(traces)
    IN  [i \in 1..Len(keys) |->
            [Trace      |-> JoinArrow(keys[i]),
             Frequency  |-> Frequency(traces, keys[i]),
             Percentage |-> Percentage(Frequency(traces, keys[i]), Len(traces))]]

\* df.sort_values("Frequency", ascending=False): rows of equal frequency keep
\* their order (frames of this size are sorted by insertion).
RECURSIVE SortByFrequency(_)
SortByFrequency(rows) ==
    IF rows = <<>> THEN <<>>
    ELSE LET i == CHOOSE i \in 1..Len(rows) :
                    /\ \A j \in 1..Len(rows) : rows[j].Frequency <= rows[i].Frequency
                    /\ \A j \in 1..(i - 1) : rows[j].Frequency < rows[i].Frequency
         IN  <<rows[i]>> \o
             SortByFrequency(SubSeq(rows, 1, i - 1) \o SubSeq(rows, i + 1, Len(rows)))

extract_unique_traces ==
    /\ pc = "loaded"
    /\ trace_frequencies' =
         Some([t \in Range(Get(event_log)) |-> Frequency(Get(event_log), t)])
    /\ unique_traces' = Some(SortByFrequency(TraceRows(Get(event_log))))
    /\ pc' = "traces"
    /\ UNCHANGED <<log_file, event_log, unique_events, initial_events, final_events,
                   footprint_matrix, relationships, petri_net, net_file,
                   raised, q4vars>>

\* ---------------------------------------- AlphaAlgorithm.extract_event_sets

\* The traces the loop body runs for: `if trace`.
NonEmptyTraces(log) == {i \in 1..Len(log) : log[i] # <<>>}

UniqueEvents(log) == UNION {Range(log[i]) : i \in NonEmptyTraces(log)}

\* InitialEvents that keeps the first label of the first trace only: a faulty
\* variant, used to test C16.
InitialEventsFirstTrace(log) == IF log = <<>> THEN {} ELSE {log[1][1]}

InitialEvents(log) == {log[i][1] : i \in NonEmptyTraces(log)}

\* FinalEvents that keeps the last label of the last trace only (the set being
\* overwritten, not added to): a faulty variant, used to test C11.
FinalEventsLastTrace(log) ==
    IF log = <<>> THEN {} ELSE {log[Len(log)][Len(log[Len(log)])]}

FinalEvents(log) == {log[i][Len(log[i])] : i \in NonEmptyTraces(log)}

extract_event_sets ==
    /\ pc = "traces"
    /\ unique_events' = Some(UniqueEvents(Get(event_log)))
    /\ initial_events' = Some(InitialEvents(Get(event_log)))
    /\ final_events' = Some(FinalEvents(Get(event_log)))
    /\ pc' = "events"
    /\ UNCHANGED <<log_file, event_log, trace_frequencies, unique_traces,
                   footprint_matrix, relationships, petri_net, net_file,
                   raised, q4vars>>

\* ------------------------------------ AlphaAlgorithm.build_footprint_matrix

\* follows[a] after the scan of the log (a defaultdict: empty for unseen keys)
Follows(log, a) ==
    UNION {{log[t][i + 1] : i \in {i \in 1..(Len(log[t]) - 1) : log[t][i] = a}} :
           t \in 1..Len(log)}

\* Footprint with the causal test made before the parallel one: a faulty
\* variant, used to test C1.
FootprintCausalFirst(log, a, b) ==
    IF b \in Follows(log, a) THEN "->"
    ELSE IF a \in Follows(log, b) THEN "<-"
    ELSE "#"

\* The symbol stored in matrix_data[a][b].
Footprint(log, a, b) ==
    IF b \in Follows(log, a) /\ a \in Follows(log, b) THEN "||"
    ELSE IF b \in Follows(log, a) THEN "->"
    ELSE IF a \in Follows(log, b) THEN "<-"
    ELSE "#"

\* matrix_data: the outer key is a, the inner key is b.
MatrixData(log, events) ==
    [a \in events |-> [b \in events |-> Footprint(log, a, b)]]

\* pd.DataFrame(data) of a dict of dicts: the outer keys become the columns and
\* the inner keys the index, so the frame maps row -> column -> data[column][row].
DataFrame(data) ==
    [row \in DOMAIN data |-> [col \in DOMAIN data |-> data[col][row]]]

\* frame.loc[row, col]
Loc(frame, row, col) == frame[row][col]

build_footprint_matrix ==
    /\ pc = "events"
    /\ footprint_matrix' =
         Some(DataFrame(MatrixData(Get(event_log), Get(unique_events))))
    /\ pc' = "matrix"
    /\ UNCHANGED <<log_file, event_log, trace_frequencies, unique_traces,
                   unique_events, initial_events, final_events, relationships,
                   petri_net, net_file,
                   raised, q4vars>>

\* ------------------------------------- AlphaAlgorithm.extract_relationships

\* The pairs (a, b) of events with frame.loc[a, b] == symbol.
PairsMarked(frame, events, symbol) ==
    {p \in events \X events : Loc(frame, p[1], p[2]) = symbol}

\* Reversed that leaves the pairs as they are: a faulty variant, used to
\* test C17.
ReversedNot(pairs) == pairs

\* {(b, a) for a, b in pairs}
Reversed(pairs) == {<<p[2], p[1]>> : p \in pairs}

Relationships(frame, events) ==
    LET causal == PairsMarked(frame, events, "->")
    IN  [causal  |-> causal,
         maximal |-> PairsMarked(frame, events, "||"),
         places  |-> causal,
         flow    |-> causal \cup Reversed(causal)]

extract_relationships ==
    /\ pc = "matrix"
    /\ relationships' = Some(Relationships(Get(footprint_matrix), Get(unique_events)))
    /\ pc' = "relationships"
    /\ UNCHANGED <<log_file, event_log, trace_frequencies, unique_traces,
                   unique_events, initial_events, final_events, footprint_matrix,
                   petri_net, net_file,
                   raised, q4vars>>

\* ------------------------------------------- AlphaAlgorithm.build_petri_net

PetriNet(rel, events, initial, final) ==
    [places          |-> SortedPairs(rel.places),
     transitions     |-> SortedLabels(events),
     initial_marking |-> SortedLabels(initial),
     final_marking   |-> SortedLabels(final),
     flow_relation   |-> SortedPairs(rel.flow)]

build_petri_net ==
    /\ pc = "relationships"
    /\ petri_net' = Some(PetriNet(Get(relationships), Get(unique_events),
                                  Get(initial_events), Get(final_events)))
    /\ pc' = "net"
    /\ UNCHANGED <<log_file, event_log, trace_frequencies, unique_traces,
                   unique_events, initial_events, final_events, footprint_matrix,
                   relationships, net_file,
                   raised, q4vars>>

\* ---------------------------------------------- AlphaAlgorithm.save_results

\* json.dump of a list of pairs, read back by json.load: each tuple is written
\* as a two-element array and comes back as a two-element list.
JsonPairs(pairs) == [i \in 1..Len(pairs) |-> <<pairs[i][1], pairs[i][2]>>]

\* The document json.dump(self.petri_net, f) writes, as json.load reads it.
JsonNet(net) ==
    [places          |-> JsonPairs(net.places),
     transitions     |-> net.transitions,
     initial_marking |-> net.initial_marking,
     final_marking   |-> net.final_marking,
     flow_relation   |-> JsonPairs(net.flow_relation)]

\* Only the Petri-net file is read again (by q4); the two CSV files are not.
save_results ==
    /\ pc = "net"
    /\ net_file' = Some(JsonNet(Get(petri_net)))
    /\ pc' = "saved"
    /\ UNCHANGED <<log_file, event_log, trace_frequencies, unique_traces,
                   unique_events, initial_events, final_events, footprint_matrix,
                   relationships, petri_net,
                   raised, q4vars>>

\* ------------------------------------------------- q4: loading the inputs

\* preprocess_event_log: the task names of every trace, empty traces kept.
PreprocessedLog(doc) == [i \in 1..Len(doc.traces) |-> TaskNames(doc.traces[i])]

preprocess_event_log ==
    /\ pc = "saved"
    /\ q4_event_log' = Some(PreprocessedLog(log_file))
    /\ pc' = "q4_log"
    /\ UNCHANGED <<q2vars, raised, q4_petri_net, fitness, precision, simplicity, genvars>>

\* fetch_latest_petri_net: the newest petri_net*.json is the one just saved.
fetch_latest_petri_net ==
    /\ pc = "q4_log"
    /\ q4_petri_net' = net_file
    /\ pc' = "q4_net"
    /\ UNCHANGED <<q2vars, raised, q4_event_log, fitness, precision, simplicity, genvars>>

\* ------------------------------------------------------ calculate_fitness

\* set([place[1] for place in petri_net["flow_relation"] if place[0] == event])
Successors(net, event) ==
    {place[2] : place \in {f \in Range(net.flow_relation) : f[1] = event}}

\* Replay without the `break`: a later event that is in the marking is still
\* counted. A faulty variant, used to test C14.
RECURSIVE ReplayNoBreak(_, _, _, _)
ReplayNoBreak(net, tr, i, mark) ==
    IF i > Len(tr) THEN 0
    ELSE IF tr[i] \in mark
         THEN 1 + ReplayNoBreak(net, tr, i + 1,
                                {f[2] : f \in {g \in Range(net.flow_relation) : g[1] = tr[i]}})
         ELSE ReplayNoBreak(net, tr, i + 1, mark)

\* trace_fitness added by the events of tr from position i on, entered with
\* marking mark: the loop breaks at the first event that is not in the marking.
RECURSIVE Replay(_, _, _, _)
Replay(net, tr, i, mark) ==
    IF i > Len(tr) THEN 0
    ELSE IF tr[i] \in mark
         THEN 1 + Replay(net, tr, i + 1, Successors(net, tr[i]))
         ELSE 0

\* trace_fitness of one trace, replayed from set(petri_net["initial_marking"])
TraceFitness(net, tr) == Replay(net, tr, 1, Range(net.initial_marking))

\* The value calculate_fitness returns.
Fitness(net, traces) ==
    LET valid == SkipEmpty(traces)
        terms == [i \in 1..Len(valid) |->
                     Rat(TraceFitness(net, valid[i]), Len(valid[i]))]
    IN  IF Len(valid) > 0 THEN RatDivInt(RatSum(terms), Len(valid)) ELSE Rat(0, 1)

calculate_fitness ==
    /\ pc = "q4_net"
    /\ fitness' = Some(Fitness(Get(q4_petri_net), Get(q4_event_log)))
    /\ pc' = "q4_fitness"
    /\ UNCHANGED <<q2vars, raised, q4_event_log, q4_petri_net, precision, simplicity, genvars>>

\* ---------------------------------------------------- calculate_precision

\* observed_behavior: a key exists for a label once a successor was added to it.
ObservedBehavior(traces) ==
    LET obs(a) == Follows(traces, a)
        keys   == {a \in UNION {Range(traces[t]) : t \in 1..Len(traces)} : obs(a) # {}}
    IN  [a \in keys |-> obs(a)]

\* AllowedKeys with a key for every transition of the net: a faulty variant,
\* used to test C9.
AllowedKeysEveryTransition(net) == Range(net.transitions)

\* The keys of allowed_behavior: a key exists once a target was added to it.
AllowedKeys(net) == {f[1] : f \in Range(net.flow_relation)}

\* allowed_behavior
AllowedBehavior(net) == [a \in AllowedKeys(net) |-> Successors(net, a)]

\* The value calculate_precision returns, or ZeroDivision.
Precision(net, traces) ==
    LET allowed  == AllowedBehavior(net)
        observed == ObservedBehavior(traces)
        counted  == SortedLabels(DOMAIN allowed \cap DOMAIN observed)
        terms    == [i \in 1..Len(counted) |->
                        Rat(Cardinality(observed[counted[i]]),
                            Cardinality(allowed[counted[i]]))]
    IN  IF DOMAIN allowed # {}
        THEN RatDivInt(RatSum(terms), Cardinality(DOMAIN allowed))
        ELSE Rat(0, 1)

calculate_precision ==
    /\ pc = "q4_fitness"
    /\ LET result == Precision(Get(q4_petri_net), Get(q4_event_log))
       IN  IF result = ZeroDivision
           THEN /\ raised' = Raise("ZeroDivisionError", "calculate_precision")
                /\ precision' = precision
                /\ pc' = "aborted"
           ELSE /\ raised' = raised
                /\ precision' = Some(result)
                /\ pc' = "q4_precision"
    /\ UNCHANGED <<q2vars, q4_event_log, q4_petri_net, fitness, simplicity, genvars>>

\* --------------------------------------------------- calculate_simplicity

\* The value calculate_simplicity returns, or ZeroDivision.
Simplicity(net) ==
    Rat(1, Len(net.places) + Len(net.transitions) + Len(net.flow_relation))

calculate_simplicity ==
    /\ pc = "q4_precision"
    /\ LET result == Simplicity(Get(q4_petri_net))
       IN  IF result = ZeroDivision
           THEN /\ raised' = Raise("ZeroDivisionError", "calculate_simplicity")
                /\ simplicity' = simplicity
                /\ pc' = "aborted"
           ELSE /\ raised' = raised
                /\ simplicity' = Some(result)
                /\ pc' = "q4_done"
    /\ UNCHANGED <<q2vars, q4_event_log, q4_petri_net, fitness, precision, genvars>>

\* --------------------------------------------------- generate_test_traces

\* PossibleEvents without the marking filter: a faulty variant, used to test C6.
PossibleEventsUnfiltered(net, mark) == net.transitions

\* [event for event in petri_net["transitions"] if event in marking]
PossibleEvents(net, mark) == SelectSeq(net.transitions, LAMBDA e : e \in mark)

\* The append without its `if trace:` guard: a faulty variant, used to test C15.
AppendAlways(traces, t) == Append(traces, t)

\* `if trace: test_traces.append(trace)`
AppendNonEmpty(traces, t) == IF t # <<>> THEN Append(traces, t) ELSE traces

\* The call: test_traces = [].
generate_test_traces ==
    /\ pc = "q4_net"
    /\ test_traces' = Some(<<>>)
    /\ outer' = 0
    /\ pc' = "gen_outer"
    /\ UNCHANGED <<q2vars, raised, scorevars, genargs, trace, marking, inner,
                   test_fitness, test_precision, first_traces>>

\* One more iteration of the outer loop: trace = [], marking = set(initial_marking).
gen_next_trace ==
    /\ pc = "gen_outer"
    /\ outer < num_traces
    /\ outer' = outer + 1
    /\ trace' = <<>>
    /\ marking' = Range(Get(q4_petri_net).initial_marking)
    /\ inner' = 0
    /\ pc' = "gen_inner"
    /\ UNCHANGED <<q2vars, raised, scorevars, genargs, test_traces,
                   test_fitness, test_precision, first_traces>>

\* The inner loop is left (by `break` or by running out of range(max_length)) and
\* the trace is appended when it is not empty.
EndTrace ==
    /\ test_traces' = Some(AppendNonEmpty(Get(test_traces), trace))
    /\ pc' = "gen_outer"
    /\ UNCHANGED <<q2vars, raised, scorevars, genargs, trace, marking, outer, inner,
                   test_fitness, test_precision, first_traces>>

\* range(max_length) is exhausted.
gen_max_length ==
    /\ pc = "gen_inner"
    /\ inner = max_length
    /\ EndTrace

\* `if not possible_events`: break, without drawing a random number.
gen_no_event ==
    /\ pc = "gen_inner"
    /\ inner < max_length
    /\ PossibleEvents(Get(q4_petri_net), marking) = <<>>
    /\ EndTrace

\* `len(trace) >= min_length and random.random() < 0.1`: break.
gen_stop_early ==
    /\ pc = "gen_inner"
    /\ inner < max_length
    /\ PossibleEvents(Get(q4_petri_net), marking) # <<>>
    /\ Len(trace) >= min_length
    /\ EndTrace

\* No break: random.choice(possible_events) is appended and the marking advanced.
gen_choose ==
    /\ pc = "gen_inner"
    /\ inner < max_length
    /\ \E event \in Range(PossibleEvents(Get(q4_petri_net), marking)) :
          /\ trace' = Append(trace, event)
          /\ marking' = Successors(Get(q4_petri_net), event)
    /\ inner' = inner + 1
    /\ UNCHANGED <<q2vars, raised, scorevars, genargs, test_traces, outer, pc,
                   test_fitness, test_precision, first_traces>>

\* return test_traces
gen_return ==
    /\ pc = "gen_outer"
    /\ outer = num_traces
    /\ pc' = "gen_done"
    /\ UNCHANGED <<q2vars, raised, scorevars, genvars>>

\* test_fitness = calculate_fitness(petri_net, test_traces)
calculate_test_fitness ==
    /\ pc = "gen_done"
    /\ test_fitness' = Some(Fitness(Get(q4_petri_net), Get(test_traces)))
    /\ pc' = "test_fitness"
    /\ UNCHANGED <<q2vars, raised, scorevars, genargs, test_traces, trace, marking,
                   outer, inner, test_precision, first_traces>>

\* test_precision = calculate_precision(petri_net, test_traces)
calculate_test_precision ==
    /\ pc = "test_fitness"
    /\ LET result == Precision(Get(q4_petri_net), Get(test_traces))
       IN  IF result = ZeroDivision
           THEN /\ raised' = Raise("ZeroDivisionError", "calculate_precision")
                /\ test_precision' = test_precision
                /\ pc' = "aborted"
           ELSE /\ raised' = raised
                /\ test_precision' = Some(result)
                /\ pc' = "test_done"
    /\ UNCHANGED <<q2vars, scorevars, genargs, test_traces, trace, marking,
                   outer, inner, test_fitness, first_traces>>

\* ------------------------------------------------------------ specification

\* The variables of generate_test_traces before it is called.
NoGeneration ==
    /\ num_traces = 0
    /\ max_length = 0
    /\ min_length = 0
    /\ test_traces = None
    /\ trace = <<>>
    /\ marking = {}
    /\ outer = 0
    /\ inner = 0
    /\ test_fitness = None
    /\ test_precision = None
    /\ first_traces = None

Init ==
    /\ \/ IsEnumeratedLog(log_file)
       \/ log_file \in {ScenarioLog, NotAListDoc}
    /\ pc = "start"
    /\ event_log = None
    /\ trace_frequencies = None
    /\ unique_traces = None
    /\ unique_events = None
    /\ initial_events = None
    /\ final_events = None
    /\ footprint_matrix = None
    /\ relationships = None
    /\ petri_net = None
    /\ net_file = None
    /\ raised = None
    /\ q4_event_log = None
    /\ q4_petri_net = None
    /\ fitness = None
    /\ precision = None
    /\ simplicity = None
    /\ NoGeneration

vars == <<pc, q2vars, raised, q4vars>>

Next ==
    \/ load_event_log
    \/ extract_unique_traces
    \/ extract_event_sets
    \/ build_footprint_matrix
    \/ extract_relationships
    \/ build_petri_net
    \/ save_results
    \/ preprocess_event_log
    \/ fetch_latest_petri_net
    \/ calculate_fitness
    \/ calculate_precision
    \/ calculate_simplicity

Spec == Init /\ [][Next]_vars

\* ------------------------------------------------ trace synthesis (SpecGen)

\* The net run_analysis saves for the event-log document doc.
DiscoveredNet(doc) ==
    LET log    == LoadedLog(doc)
        events == UniqueEvents(log)
        frame  == DataFrame(MatrixData(log, events))
    IN  JsonNet(PetriNet(Relationships(frame, events), events,
                         InitialEvents(log), FinalEvents(log)))

\* Largest num_traces, and largest max_length and min_length, that are tried.
MaxNumTraces == 2

MaxLength == 2

\* Event-log files whose saved nets are walked.
GenLogs ==
    {ScenarioLog,
     ListDoc(<<RawTrace(<<"A">>)>>),
     ListDoc(<<RawTrace(<<"A", "A", "B">>)>>),
     ListDoc(<<RawTrace(<<"A", "B", "C", "A">>)>>),
     ListDoc(<<RawTrace(<<"A", "B">>), RawTrace(<<"B", "A">>), RawTrace(<<"B", "C">>)>>),
     ListDoc(<<<<>>>>)}

\* Nets written by hand over two labels: any transitions, any initial marking,
\* any flow relation.
ExternalNets ==
    {[places          |-> <<>>,
      transitions     |-> SortedLabels(ts),
      initial_marking |-> SortedLabels(im),
      final_marking   |-> <<>>,
      flow_relation   |-> SortedPairs(fl)] :
        ts \in SUBSET {"A", "B"}, im \in SUBSET {"A", "B"},
        fl \in SUBSET ({"A", "B"} \X {"A", "B"})}

InitGen ==
    /\ \/ /\ log_file \in GenLogs
          /\ net_file = Some(DiscoveredNet(log_file))
       \/ /\ log_file = ListDoc(<<>>)
          /\ net_file \in {Some(n) : n \in ExternalNets}
    /\ pc = "q4_net"
    /\ q4_event_log = Some(PreprocessedLog(log_file))
    /\ q4_petri_net = net_file
    /\ event_log = None
    /\ trace_frequencies = None
    /\ unique_traces = None
    /\ unique_events = None
    /\ initial_events = None
    /\ final_events = None
    /\ footprint_matrix = None
    /\ relationships = None
    /\ petri_net = None
    /\ raised = None
    /\ fitness = None
    /\ precision = None
    /\ simplicity = None
    /\ num_traces \in 0..MaxNumTraces
    /\ max_length \in 0..MaxLength
    /\ min_length \in 0..MaxLength
    /\ test_traces = None
    /\ trace = <<>>
    /\ marking = {}
    /\ outer = 0
    /\ inner = 0
    /\ test_fitness = None
    /\ test_precision = None
    /\ first_traces = None

NextGen ==
    \/ generate_test_traces
    \/ gen_next_trace
    \/ gen_max_length
    \/ gen_no_event
    \/ gen_stop_early
    \/ gen_choose
    \/ gen_return
    \/ calculate_test_fitness
    \/ calculate_test_precision

SpecGen == InitGen /\ [][NextGen]_vars

\* ================================================================== claims

\* ------------------------------------------------------------------- C1
\* C1: in the footprint table every ordered pair of labels of the log carries
\* exactly one of the four symbols, and the table is symmetric under
\* swap-and-flip: (a,b) is -> iff (b,a) is <-, (a,b) is || iff (b,a) is ||,
\* (a,b) is # iff (b,a) is #; so no pair is both -> and <-.
C1_FootprintSwapAndFlip ==
    footprint_matrix # None =>
        LET frame  == Get(footprint_matrix)
            events == Get(unique_events)
        IN  /\ DOMAIN frame = events
            /\ \A a \in events :
                 /\ DOMAIN frame[a] = events
                 /\ \A b \in events :
                      /\ Loc(frame, a, b) \in {"->", "<-", "||", "#"}
                      /\ Loc(frame, a, b) = "->" <=> Loc(frame, b, a) = "<-"
                      /\ Loc(frame, a, b) = "||" <=> Loc(frame, b, a) = "||"
                      /\ Loc(frame, a, b) = "#" <=> Loc(frame, b, a) = "#"

\* A table built from a log that has a causal pair, a parallel pair of distinct
\* labels and an unrelated pair of distinct labels.
C1_Witness ==
    /\ footprint_matrix # None
    /\ LET frame  == Get(footprint_matrix)
           events == Get(unique_events)
       IN  /\ \E a, b \in events : Loc(frame, a, b) = "->"
           /\ \E a, b \in events : a # b /\ Loc(frame, a, b) = "||"
           /\ \E a, b \in events : a # b /\ Loc(frame, a, b) = "#"

\* ------------------------------------------------------------------- C2
\* b immediately follows a in some trace of the event-log document.
DirectlyFollows(doc, a, b) ==
    \E t \in 1..Len(doc.traces) : \E i \in 1..(Len(doc.traces[t]) - 1) :
        doc.traces[t][i].task = a /\ doc.traces[t][i + 1].task = b

LabelsOf(doc) ==
    UNION {{doc.traces[t][i].task : i \in 1..Len(doc.traces[t])} :
           t \in 1..Len(doc.traces)}

FirstLabels(doc) ==
    {doc.traces[t][1].task : t \in {t \in 1..Len(doc.traces) : doc.traces[t] # <<>>}}

LastLabels(doc) ==
    {doc.traces[t][Len(doc.traces[t])].task :
        t \in {t \in 1..Len(doc.traces) : doc.traces[t] # <<>>}}

\* C2: the Petri net returned by build_petri_net is the reference synthesis:
\* transitions are all labels of the log, places are exactly the pairs (a,b)
\* with b immediately following a somewhere and a never immediately following
\* b (source first), initial_marking / final_marking are the first / last
\* labels of the non-empty traces, both within transitions; the scenario log
\* gives 4 places, 4 transitions, initial_marking {A}, final_marking {D}.
C2_ReferenceSynthesis ==
    petri_net # None =>
        LET net == Get(petri_net)
        IN  /\ Range(net.transitions) = LabelsOf(log_file)
            /\ Range(net.places) =
                 {p \in LabelsOf(log_file) \X LabelsOf(log_file) :
                     /\ DirectlyFollows(log_file, p[1], p[2])
                     /\ ~DirectlyFollows(log_file, p[2], p[1])}
            /\ Range(net.initial_marking) = FirstLabels(log_file)
            /\ Range(net.final_marking) = LastLabels(log_file)
            /\ Range(net.initial_marking) \subseteq Range(net.transitions)
            /\ Range(net.final_marking) \subseteq Range(net.transitions)
            /\ log_file = ScenarioLog =>
                 /\ Len(net.places) = 4
                 /\ Len(net.transitions) = 4
                 /\ net.initial_marking = <<"A">>
                 /\ net.final_marking = <<"D">>

\* ------------------------------------------------------------------- C3
\* The symbol build_footprint_matrix computes for the ordered pair (a, b): the
\* entry matrix_data[a][b], which the frame holds in column a, row b.
Relation(frame, a, b) == Loc(frame, b, a)

\* C3: for the scenario log the relation of (A,B), (A,C), (B,D), (C,D) is ->,
\* that of (B,C) is ||, and the causal set computed by extract_relationships
\* is exactly {(A,B),(A,C),(B,D),(C,D)}.
C3_ScenarioRelations ==
    (log_file = ScenarioLog /\ relationships # None) =>
        LET frame == Get(footprint_matrix)
        IN  /\ Relation(frame, "A", "B") = "->"
            /\ Relation(frame, "A", "C") = "->"
            /\ Relation(frame, "B", "C") = "||"
            /\ Relation(frame, "B", "D") = "->"
            /\ Relation(frame, "C", "D") = "->"
            /\ Get(relationships).causal =
                 {<<"A", "B">>, <<"A", "C">>, <<"B", "D">>, <<"C", "D">>}

\* ------------------------------------------------------------------- C4
\* Whether x is a place (a pair of labels) rather than a label.
IsPlace(x) == x \notin Labels

\* The arcs (source, p) of the flow relation into place p = (source, target).
ArcsInto(net, p) ==
    {f \in Range(net.flow_relation) : f[1] = p[1] /\ IsPlace(f[2]) /\ f[2] = p}

\* The arcs (p, target) of the flow relation out of place p = (source, target).
ArcsOutOf(net, p) ==
    {f \in Range(net.flow_relation) : f[2] = p[2] /\ IsPlace(f[1]) /\ f[1] = p}

\* C4: every place p = (s,t) of a discovered model has exactly one incoming
\* arc (s,p) and exactly one outgoing arc (p,t) in flow_relation, which holds
\* these place arcs in addition to the causal pairs.
C4_PlaceArcs ==
    petri_net # None =>
        LET net == Get(petri_net)
        IN  /\ Get(relationships).causal \subseteq Range(net.flow_relation)
            /\ \A p \in Range(net.places) :
                 /\ Cardinality(ArcsInto(net, p)) = 1
                 /\ Cardinality(ArcsOutOf(net, p)) = 1

\* ------------------------------------------------------------------- C5
\* C5: calculate_precision applied to the model discovered from a log and to
\* that same log returns a value in [0,1].
C5_PrecisionInUnitInterval ==
    precision # None =>
        /\ RatLeq(Rat(0, 1), Get(precision))
        /\ RatLeq(Get(precision), Rat(1, 1))

\* ------------------------------------------------------------------- C6
\* C6: every trace returned by generate_test_traces is replayed completely by
\* calculate_fitness against the same model (no early stop), so the fitness of
\* a non-empty generated trace set is exactly 1.
C6_GeneratedTracesFit ==
    /\ test_traces # None =>
         \A i \in 1..Len(Get(test_traces)) :
             TraceFitness(Get(q4_petri_net), Get(test_traces)[i])
                 = Len(Get(test_traces)[i])
    /\ (test_fitness # None /\ Get(test_traces) # <<>>) =>
         test_fitness = Some(Rat(1, 1))

\* Fitness 1 was computed for two generated traces, one of them of two events
\* and one cut short after a single event.
C6_Witness ==
    /\ test_fitness = Some(Rat(1, 1))
    /\ Len(Get(test_traces)) = 2
    /\ \E i, j \in 1..2 : Len(Get(test_traces)[i]) = 2 /\ Len(Get(test_traces)[j]) = 1

\* ------------------------------------------------------------------- C7
\* C7: loading an empty log or a document that is not a list ends in an error
\* raised by load_event_log, and then no later stage runs: no trace table,
\* event sets, footprint table, relationships or Petri net are produced, and
\* nothing is saved or scored.
C7_InvalidLogAborts ==
    ((~log_file.is_list \/ log_file.traces = <<>>) /\ pc # "start") =>
        /\ pc = "aborted"
        /\ raised = Raise("ValueError", "load_event_log")
        /\ trace_frequencies = None
        /\ unique_traces = None
        /\ unique_events = None
        /\ initial_events = None
        /\ final_events = None
        /\ footprint_matrix = None
        /\ relationships = None
        /\ petri_net = None
        /\ net_file = None
        /\ q4_petri_net = None
        /\ simplicity = None

\* load_event_log has rejected the empty log [].
C7_Witness ==
    /\ log_file = ListDoc(<<>>)
    /\ pc = "aborted"
    /\ raised = Raise("ValueError", "load_event_log")

\* load_event_log has rejected a document that is not a list.
C7_WitnessNotAList ==
    /\ ~log_file.is_list
    /\ pc = "aborted"

\* ------------------------------------------------------------------- C8
\* C8: calculate_simplicity returns 1/(|places|+|transitions|+|flow_relation|)
\* for a non-empty model, and for a completely empty model it returns 0 or a
\* deliberate error signal instead of failing with a division by zero.
C8_SimplicityOfEmptyModel ==
    /\ simplicity # None =>
         Get(simplicity) =
           <<1, Len(Get(q4_petri_net).places) + Len(Get(q4_petri_net).transitions)
                  + Len(Get(q4_petri_net).flow_relation)>>
    /\ raised # Raise("ZeroDivisionError", "calculate_simplicity")

\* ------------------------------------------------------------------- C9
\* Length of the traces calculate_precision is tried on besides the model's own log.
MaxProbeLength == 2

\* The logs of one trace of at most MaxProbeLength events.
ProbeLogs ==
    UNION {{<<tr>> : tr \in [1..k -> Labels]} : k \in 0..MaxProbeLength}

\* C9: calculate_precision on a model with an empty flow relation returns 0
\* for every log, and no label with an empty allowed set is ever a divisor:
\* calculate_precision never ends in a division error.
C9_PrecisionNeverDividesByZero ==
    /\ raised # Raise("ZeroDivisionError", "calculate_precision")
    /\ pc = "q4_fitness" =>
         LET net == Get(q4_petri_net)
         IN  /\ \A a \in DOMAIN AllowedBehavior(net) : AllowedBehavior(net)[a] # {}
             /\ \A traces \in ProbeLogs : Precision(net, traces) # ZeroDivision
             /\ net.flow_relation = <<>> =>
                  \A traces \in ProbeLogs : Precision(net, traces) = Rat(0, 1)
    /\ (precision # None /\ Get(q4_petri_net).flow_relation = <<>>) =>
         precision = Some(Rat(0, 1))

\* Precision was computed, as 0, for the net of a single-activity log whose
\* label has a successor in the log.
C9_Witness ==
    /\ precision = Some(Rat(0, 1))
    /\ Get(q4_petri_net).transitions = <<"A">>
    /\ Get(q4_petri_net).flow_relation = <<>>
    /\ "A" \in DOMAIN ObservedBehavior(Get(q4_event_log))

\* ------------------------------------------------------------------ C10
\* C10: no self-pair (a,a) is classified as causal or parallel: the causal set
\* and the parallel ('maximal') set of extract_relationships hold no pair with
\* equal components.
C10_NoSelfPairs ==
    relationships # None =>
        \A p \in Get(relationships).causal \cup Get(relationships).maximal :
            p[1] # p[2]

\* ------------------------------------------------------------------ C11
\* The distinct non-empty traces of an event-log document, as label sequences.
DistinctTraces(doc) == {TaskNames(tr) : tr \in Range(doc.traces)} \ {<<>>}

\* The elements of a set of traces in one fixed order, each once.
RECURSIVE OneOfEach(_)
OneOfEach(S) ==
    IF S = {} THEN <<>>
    ELSE LET tr == CHOOSE x \in S : TRUE
         IN  <<tr>> \o OneOfEach(S \ {tr})

C13_PercentageOfRawTotal ==
    /\ unique_events # None =>
         /\ Get(unique_events) = UNION {Range(tr) : tr \in DistinctTraces(log_file)}
         /\ Get(initial_events) = {tr[1] : tr \in DistinctTraces(log_file)}
         /\ Get(final_events) = {tr[Len(tr)] : tr \in DistinctTraces(log_file)}
    /\ unique_traces # None =>
         \A i \in 1..Len(Get(unique_traces)) :
             Get(unique_traces)[i].Percentage =
                 Percentage(Get(unique_traces)[i].Frequency, Len(log_file.traces))

\* ------------------------------------------------------------------ C14
\* The marking before the i-th event of tr when every earlier event matched.
MarkingBefore(net, tr, i) ==
    IF i = 1 THEN Range(net.initial_marking)
    ELSE {f[2] : f \in {g \in Range(net.flow_relation) : g[1] = tr[i - 1]}}

\* The length of the longest prefix of tr whose every event is in the marking.
MatchedPrefix(net, tr) ==
    CHOOSE k \in 0..Len(tr) :
        /\ \A i \in 1..k : tr[i] \in MarkingBefore(net, tr, i)
        /\ k < Len(tr) => tr[k + 1] \notin MarkingBefore(net, tr, k + 1)

\* C14: calculate_fitness counts, per non-empty trace, the longest prefix in
\* which every event is in the current marking (replay stops at the first
\* event that is not); the overall fitness is the mean of matched/length over
\* the non-empty traces, 0 when there is none; [A,B,D] replayed against the
\* net of the scenario log scores 1.
C14_FitnessIsMeanMatchedPrefix ==
    fitness # None =>
        LET net   == Get(q4_petri_net)
            valid == SkipEmpty(Get(q4_event_log))
        IN  /\ \A i \in 1..Len(valid) :
                 TraceFitness(net, valid[i]) = MatchedPrefix(net, valid[i])
            /\ Get(fitness) =
                 IF valid = <<>> THEN <<0, 1>>
                 ELSE RatDivInt(
                        RatSum([i \in 1..Len(valid) |->
                                   Rat(MatchedPrefix(net, valid[i]), Len(valid[i]))]),
                        Len(valid))
            /\ log_file = ScenarioLog =>
                 Fitness(net, <<<<"A", "B", "D">>>>) = <<1, 1>>

\* Fitness was computed for a log with a trace whose replay stops early although
\* a later event of it is in the marking at the stop.
C14_Witness ==
    /\ fitness # None
    /\ \E i \in 1..Len(Get(q4_event_log)) :
         LET tr == Get(q4_event_log)[i]
             k  == MatchedPrefix(Get(q4_petri_net), tr)
         IN  /\ 0 < k
             /\ k + 1 < Len(tr)
             /\ tr[k + 2] \in MarkingBefore(Get(q4_petri_net), tr, k + 1)

\* ------------------------------------------------------------------ C16
\* C16: for a log with a non-empty trace, scored against the net discovered
\* from it, the first event of every trace is matched, so each per-trace
\* fitness is at least 1/length, and the overall fitness is > 0 and <= 1.
C16_FirstEventAlwaysMatches ==
    (fitness # None /\ SkipEmpty(Get(q4_event_log)) # <<>>) =>
        /\ \A i \in 1..Len(Get(q4_event_log)) :
             Get(q4_event_log)[i] # <<>> =>
                 /\ Get(q4_event_log)[i][1] \in Range(Get(q4_petri_net).initial_marking)
                 /\ TraceFitness(Get(q4_petri_net), Get(q4_event_log)[i]) >= 1
        /\ Get(fitness)[1] > 0
        /\ RatLeq(Get(fitness), <<1, 1>>)

\* Fitness below 1 was computed for a log of two traces that begin differently.
C16_Witness ==
    /\ fitness # None
    /\ Len(Get(q4_petri_net).initial_marking) = 2
    /\ Get(fitness) # <<1, 1>>
    /\ Get(fitness)[1] > 0

\* ------------------------------------------------------------------ C17
\* C17: in a discovered model flow_relation is the symmetric closure of the
\* places: it holds (a,b) iff it holds (b,a), only pairs of labels, no
\* self-pair, and twice as many elements as there are places; so the marking
\* after an event holds its causal predecessors as well as its successors.
C17_FlowIsSymmetricClosure ==
    q4_petri_net # None =>
        LET net   == Get(q4_petri_net)
            flow  == Range(net.flow_relation)
            place == Range(net.places)
        IN  /\ flow = place \cup {<<p[2], p[1]>> : p \in place}
            /\ \A f \in flow : <<f[2], f[1]>> \in flow
            /\ flow \subseteq Range(net.transitions) \X Range(net.transitions)
            /\ \A f \in flow : f[1] # f[2]
            /\ Len(net.flow_relation) = 2 * Len(net.places)
            /\ \A e \in Range(net.transitions) :
                 Successors(net, e) =
                     {t \in Range(net.transitions) :
                         <<e, t>> \in place \/ <<t, e>> \in place}

\* A net with a chain of two places: the middle label's marking holds both its
\* predecessor and its successor.
C17_Witness ==
    /\ q4_petri_net # None
    /\ \E a, b, c \in Labels :
         /\ a # c
         /\ {<<b, a>>, <<c, b>>} \subseteq Range(Get(q4_petri_net).places)
         /\ Successors(Get(q4_petri_net), b) = {a, c}

\* ------------------------------------------------------------------ C12
\* generate_test_traces is called once more with the same petri_net,
\* num_traces, max_length and min_length; what the first call returned is kept.
generate_again ==
    /\ pc = "gen_done"
    /\ first_traces = None
    /\ first_traces' = test_traces
    /\ pc' = "q4_net"
    /\ UNCHANGED <<q2vars, raised, scorevars, genargs, test_traces, trace, marking,
                   outer, inner, test_fitness, test_precision>>

InitTwice ==
    /\ InitGen
    /\ log_file \in GenLogs

NextTwice ==
    \/ generate_test_traces
    \/ gen_next_trace
    \/ gen_max_length
    \/ gen_no_event
    \/ gen_stop_early
    \/ gen_choose
    \/ gen_return
    \/ generate_again

SpecTwice == InitTwice /\ [][NextTwice]_vars

\* C12: generate_test_traces takes a seed or random source, and two calls with
\* the same model, the same parameters and the same seed return the same list
\* of traces. The function has no such input: its whole input is genargs and
\* the model, so the claim is that two calls with the same input agree.
C12_SameInputSameTraces ==
    (pc = "gen_done" /\ first_traces # None) => test_traces = first_traces

\* ------------------------------------------------------------------ C15
\* The steps of the generation loop.
GenStep ==
    \/ generate_test_traces
    \/ gen_next_trace
    \/ gen_max_length
    \/ gen_no_event
    \/ gen_stop_early
    \/ gen_choose
    \/ gen_return

\* An upper bound on the number of steps generate_test_traces has yet to take.
StepsLeft ==
    CASE pc = "q4_net"    -> num_traces * (max_length + 2) + 2
      [] pc = "gen_outer" -> (num_traces - outer) * (max_length + 2) + 1
      [] pc = "gen_inner" -> (num_traces - outer) * (max_length + 2)
                               + (max_length - inner) + 2
      [] OTHER            -> 0

\* What holds in every state of a call, whatever the model and the choices: the
\* returned list has at most num_traces traces, none empty, none longer than
\* max_length, every event a transition; and the call is never stuck.
C15_Bounds ==
    /\ outer <= num_traces
    /\ inner <= max_length
    /\ StepsLeft >= 0
    /\ pc \in {"q4_net", "gen_outer", "gen_inner"} => ENABLED GenStep
    /\ Len(trace) <= inner
    /\ Range(trace) \subseteq Range(Get(q4_petri_net).transitions)
    /\ test_traces # None =>
         /\ Len(Get(test_traces)) <= outer
         /\ \A i \in 1..Len(Get(test_traces)) :
              /\ Get(test_traces)[i] # <<>>
              /\ Len(Get(test_traces)[i]) <= max_length
              /\ Range(Get(test_traces)[i]) \subseteq
                     Range(Get(q4_petri_net).transitions)

\* What holds of every step of a call: it uses up one of the steps left; an
\* event added to the trace is a transition that was in the marking; the only
\* traces returned are finished current traces.
C15_Steps ==
    /\ GenStep => StepsLeft' < StepsLeft
    /\ trace' # trace /\ trace' # <<>> =>
         \E e \in marking \cap Range(Get(q4_petri_net).transitions) :
             trace' = Append(trace, e)
    /\ test_traces # None /\ test_traces' # test_traces =>
         /\ pc = "gen_inner"
         /\ test_traces' = Some(Append(Get(test_traces), trace))

\* A trace shorter than min_length is being returned.
ReturnsShortTrace ==
    /\ test_traces # None
    /\ test_traces' # test_traces
    /\ Len(trace) < min_length

\* C15 as stated: generate_test_traces terminates and returns at most
\* num_traces traces, none empty, none longer than max_length, of events that
\* were transitions in the marking when chosen; and a returned trace shorter
\* than min_length ended only because no transition was in the marking.
C15_ShortOnlyByNoTransition ==
    /\ []C15_Bounds
    /\ [][/\ C15_Steps
          /\ ReturnsShortTrace =>
               PossibleEvents(Get(q4_petri_net), marking) = <<>>]_vars

\* C15, amended: as stated, except that a returned trace shorter than
\* min_length ended because no transition was in the marking or because
\* max_length events had been tried (max_length < min_length); never by the
\* random early stop.
C15_ShortOnlyByNoTransitionOrMaxLength ==
    /\ []C15_Bounds
    /\ [][/\ C15_Steps
          /\ ReturnsShortTrace =>
               \/ PossibleEvents(Get(q4_petri_net), marking) = <<>>
               \/ inner = max_length]_vars

\* A call on a cyclic model returned as many traces as asked, one of them
\* shorter than min_length and as long as max_length allows.
C15_Witness ==
    /\ pc = "gen_done"
    /\ num_traces = 2
    /\ Len(Get(test_traces)) = 2
    /\ max_length < min_length
    /\ \E i \in 1..2 : Len(Get(test_traces)[i]) = max_length
    /\ \E f \in Range(Get(q4_petri_net).flow_relation) :
         <<f[2], f[1]>> \in Range(Get(q4_petri_net).flow_relation)

====
